---- MODULE Spec2Model ----
(***************************************************************************)
(* polyndrom::acid_map (src/src/acid_map.hpp): an ordered map backed by an *)
(* AVL tree of heap nodes linked by left_/right_/parent_ pointers.         *)
(*                                                                         *)
(* The heap is a function from the addresses of the constructed nodes to   *)
(* their fields; destroy_node removes an address from its domain.  The     *)
(* map object is the record [heap, root, size].                            *)
(***************************************************************************)
EXTENDS Integers, FiniteSets, Sequences, TLC

\* Keys offered to the operations of Spec (all operations, values, iterators).
MaxKey == 3
\* Keys offered to the operations of SpecTree (structure only).
MaxTreeKey == 7
\* Mapped values offered to the insertions of Spec.
MaxVal == 2

Keys == 1..MaxKey
TreeKeys == 1..MaxTreeKey
Vals == 1..MaxVal

\* nullptr
Null == 0

\* Addresses the allocator can hand out: one per key and one more for the
\* node emplace builds before it looks the key up.
NumNodes == (IF MaxKey > MaxTreeKey THEN MaxKey ELSE MaxTreeKey) + 1
Nodes == 1..NumNodes

Max(a, b) == IF a > b THEN a ELSE b

SetMin(S) == CHOOSE x \in S : \A y \in S : x <= y

----------------------------------------------------------------------------
\* Node storage

\* avl_tree_node's constructor: absent links, height_ 1, the entry.
avl_tree_node(k, v) ==
    [left |-> Null, right |-> Null, parent |-> Null, height |-> 1,
     key |-> k, val |-> v]

\* std::allocator_traits::allocate: some address not in use.  The tree uses
\* addresses for identity only; the allocator modelled here hands out the
\* address numbered like the key when it is free and the lowest free address
\* otherwise.
allocate(h, k) ==
    IF k \in Nodes \ DOMAIN h THEN k ELSE SetMin(Nodes \ DOMAIN h)

\* construct_node: allocate, then construct in place.
construct_node(h, k, v) ==
    LET node == allocate(h, k)
    IN [h |-> [n \in DOMAIN h \cup {node} |->
                  IF n = node THEN avl_tree_node(k, v) ELSE h[n]],
        node |-> node]

\* destroy_node: destroy and deallocate; the address leaves the heap.
destroy_node(h, node) == [n \in DOMAIN h \ {node} |-> h[n]]

----------------------------------------------------------------------------
\* Comparison (std::less<Key>)

is_less(lhs, rhs) == lhs < rhs

is_equal(lhs, rhs) == ~is_less(lhs, rhs) /\ ~is_less(rhs, lhs)

is_left_child(h, node) == h[h[node].parent].left = node

is_right_child(h, node) == h[h[node].parent].right = node

----------------------------------------------------------------------------
\* Lookup

RECURSIVE find_loop(_, _, _, _)
find_loop(h, parent, node, key) ==
    IF node = Null THEN <<parent, node>>
    ELSE IF is_equal(h[node].key, key) THEN <<parent, node>>
    ELSE IF is_less(key, h[node].key)
         THEN find_loop(h, node, h[node].left, key)
         ELSE find_loop(h, node, h[node].right, key)

\* find_node: <<last node visited, matching node or Null>>.
find_node(h, root, key) == find_loop(h, Null, root, key)

----------------------------------------------------------------------------
\* Heights and rotations

height(h, node) == IF node = Null THEN 0 ELSE h[node].height

\* update_height that looks at the left child only.
update_height_left_only(h, node) ==
    IF node # Null
    THEN [h EXCEPT ![node].height = height(h, h[node].left) + 1]
    ELSE h

update_height(h, node) ==
    IF node # Null
    THEN [h EXCEPT ![node].height =
              Max(height(h, h[node].left), height(h, h[node].right)) + 1]
    ELSE h

balance_factor(h, node) ==
    IF node = Null THEN 0
    ELSE height(h, h[node].left) - height(h, h[node].right)

\* The assignments node->left_ = v, node->right_ = v, node->parent_ = v.
set_left(h, node, v) == [h EXCEPT ![node].left = v]

set_right(h, node, v) == [h EXCEPT ![node].right = v]

set_parent(h, node, v) == [h EXCEPT ![node].parent = v]

\* A left rotation that leaves the parent_ of the subtree moved from the
\* right child to the node pointing at the right child.
rotate_left_stale_parent(h, node) ==
    LET right_child == h[node].right
        s1(x) == IF x[node].right # Null
                 THEN set_right(x, node, x[right_child].left)
                 ELSE x
        s3(x) == set_left(x, right_child, node)
        s4(x) == set_parent(x, right_child, x[node].parent)
        s5(x) == set_parent(x, node, right_child)
        s6(x) == update_height(x, node)
        s7(x) == update_height(x, right_child)
    IN [h |-> s7(s6(s5(s4(s3(s1(h)))))), node |-> right_child]

\* Each s<i> is one statement of the function, applied to the heap x that
\* the statements before it produced.
rotate_left(h, node) ==
    LET right_child == h[node].right
        s1(x) == IF x[node].right # Null
                 THEN set_right(x, node, x[right_child].left)
                 ELSE x
        s2(x) == IF x[right_child].left # Null
                 THEN set_parent(x, x[right_child].left, node)
                 ELSE x
        s3(x) == set_left(x, right_child, node)
        s4(x) == set_parent(x, right_child, x[node].parent)
        s5(x) == set_parent(x, node, right_child)
        s6(x) == update_height(x, node)
        s7(x) == update_height(x, right_child)
    IN [h |-> s7(s6(s5(s4(s3(s2(s1(h))))))), node |-> right_child]

\* A right rotation that does not recompute the height of the node it
\* moves down.
rotate_right_stale_height(h, node) ==
    LET left_child == h[node].left
        s1(x) == IF x[node].left # Null
                 THEN set_left(x, node, x[left_child].right)
                 ELSE x
        s2(x) == IF x[left_child].right # Null
                 THEN set_parent(x, x[left_child].right, node)
                 ELSE x
        s3(x) == set_right(x, left_child, node)
        s4(x) == set_parent(x, left_child, x[node].parent)
        s5(x) == set_parent(x, node, left_child)
        s7(x) == update_height(x, left_child)
    IN [h |-> s7(s5(s4(s3(s2(s1(h)))))), node |-> left_child]

rotate_right(h, node) ==
    LET left_child == h[node].left
        s1(x) == IF x[node].left # Null
                 THEN set_left(x, node, x[left_child].right)
                 ELSE x
        s2(x) == IF x[left_child].right # Null
                 THEN set_parent(x, x[left_child].right, node)
                 ELSE x
        s3(x) == set_right(x, left_child, node)
        s4(x) == set_parent(x, left_child, x[node].parent)
        s5(x) == set_parent(x, node, left_child)
        s6(x) == update_height(x, node)
        s7(x) == update_height(x, left_child)
    IN [h |-> s7(s6(s5(s4(s3(s2(s1(h))))))), node |-> left_child]

\* A rotation's result r with its node's height recomputed (rebalance's
\* closing update_height(node); return node).
rebalanced(r) == [h |-> update_height(r.h, r.node), node |-> r.node]

\* node->left_ = rotate_left(node->left_)
rotate_left_child(h, node) ==
    LET r == rotate_left(h, h[node].left) IN set_left(r.h, node, r.node)

\* node->right_ = rotate_right(node->right_)
rotate_right_child(h, node) ==
    LET r == rotate_right(h, h[node].right) IN set_right(r.h, node, r.node)

\* Rebalancing without the inner rotation of the left-right and right-left
\* cases.
rebalance_single(h, node) ==
    LET bf == balance_factor(h, node)
    IN IF bf = 2 THEN rebalanced(rotate_right(h, node))
       ELSE IF bf = -2 THEN rebalanced(rotate_left(h, node))
       ELSE rebalanced([h |-> h, node |-> node])

rebalance(h, node) ==
    LET bf == balance_factor(h, node)
    IN IF bf = 2 THEN
           rebalanced(rotate_right(
               IF balance_factor(h, h[node].left) = -1
               THEN rotate_left_child(h, node) ELSE h, node))
       ELSE IF bf = -2 THEN
           rebalanced(rotate_left(
               IF balance_factor(h, h[node].right) = 1
               THEN rotate_right_child(h, node) ELSE h, node))
       ELSE rebalanced([h |-> h, node |-> node])

\* One turn of rebalance_path's loop on r = rebalance(node): the rebalanced
\* node is reattached on the side `pos` recorded before the rebalance.
reattach(r, pos) ==
    IF pos THEN set_left(r.h, r.h[r.node].parent, r.node)
           ELSE set_right(r.h, r.h[r.node].parent, r.node)

\* root_ = rebalance(root_)
rebalance_root(m, r) == [m EXCEPT !.heap = r.h, !.root = r.node]

\* The loop's step: the heap after the turn, and node = node->parent_.
loop_turn(h, node) ==
    LET r == rebalance(h, node)
    IN [h |-> reattach(r, ~is_right_child(h, node)),
        node |-> r.h[r.node].parent]

RECURSIVE rebalance_loop(_, _)
rebalance_loop(m, node) ==
    IF node # m.root THEN
        LET t == loop_turn(m.heap, node)
        IN rebalance_loop([m EXCEPT !.heap = t.h], t.node)
    ELSE rebalance_root(m, rebalance(m.heap, m.root))

\* rebalance_path: rebalance node and each ancestor up to the root.
rebalance_path(m, node) ==
    IF node = Null THEN m ELSE rebalance_loop(m, node)

----------------------------------------------------------------------------
\* Navigation

RECURSIVE min_node(_, _)
min_node(h, root) ==
    IF h[root].left # Null THEN min_node(h, h[root].left) ELSE root

RECURSIVE max_node(_, _)
max_node(h, root) ==
    IF h[root].right # Null THEN max_node(h, h[root].right) ELSE root

RECURSIVE nearest_left_ancestor(_, _)
nearest_left_ancestor(h, node) ==
    IF node = Null THEN Null
    ELSE IF h[node].parent # Null /\ is_left_child(h, node)
         THEN h[node].parent
         ELSE nearest_left_ancestor(h, h[node].parent)

RECURSIVE nearest_right_ancestor(_, _)
nearest_right_ancestor(h, node) ==
    IF node = Null THEN Null
    ELSE IF h[node].parent # Null /\ is_right_child(h, node)
         THEN h[node].parent
         ELSE nearest_right_ancestor(h, h[node].parent)

\* operator++ that, from a node with no right child, steps to the parent.
next_node_to_parent(h, node) ==
    IF h[node].right # Null THEN min_node(h, h[node].right)
    ELSE h[node].parent

next_node(h, node) ==
    IF h[node].right # Null THEN min_node(h, h[node].right)
    ELSE nearest_left_ancestor(h, node)

\* operator-- that, from a node with no left child, steps to the parent.
prev_node_to_parent(h, node) ==
    IF h[node].left # Null THEN max_node(h, h[node].left)
    ELSE h[node].parent

prev_node(h, node) ==
    IF h[node].left # Null THEN max_node(h, h[node].left)
    ELSE nearest_right_ancestor(h, node)

----------------------------------------------------------------------------
\* Structural insertion and erasure

\* Insertion that attaches the new node on the wrong side of its parent.
insert_node_wrong_side(m, where, node) ==
    LET parent == find_node(m.heap, where, m.heap[node].key)[1]
        s1(x) == set_parent(x, node, parent)
        s2(x) == IF is_less(x[parent].key, x[node].key)
                 THEN set_left(x, parent, node)
                 ELSE set_right(x, parent, node)
        s3(x) == update_height(x, x[node].parent)
    IN IF m.root = Null
       THEN [m EXCEPT !.size = m.size + 1, !.root = node]
       ELSE rebalance_path(
                [m EXCEPT !.size = m.size + 1, !.heap = s3(s2(s1(m.heap)))],
                parent)

insert_node(m, where, node) ==
    LET parent == find_node(m.heap, where, m.heap[node].key)[1]
        s1(x) == set_parent(x, node, parent)
        s2(x) == IF is_less(x[node].key, x[parent].key)
                 THEN set_left(x, parent, node)
                 ELSE set_right(x, parent, node)
        s3(x) == update_height(x, x[node].parent)
    IN IF m.root = Null
       THEN [m EXCEPT !.size = m.size + 1, !.root = node]
       ELSE rebalance_path(
                [m EXCEPT !.size = m.size + 1, !.heap = s3(s2(s1(m.heap)))],
                parent)

update_at_parent(h, parent, old_node, new_node) ==
    IF parent = Null THEN h
    ELSE IF is_left_child(h, old_node)
         THEN set_left(h, parent, new_node)
         ELSE set_right(h, parent, new_node)

\* erase_node, the branch for a node with at most one child:
\* [h: the heap after, replacement, for_rebalance].
erase_one_child(h, node) ==
    LET parent == h[node].parent
        replacement == IF h[node].left # Null THEN h[node].left
                                              ELSE h[node].right
        s1(x) == IF replacement # Null
                 THEN set_parent(x, replacement, parent) ELSE x
        s2(x) == update_at_parent(x, parent, node, replacement)
    IN [h |-> s2(s1(h)), replacement |-> replacement,
        for_rebalance |-> parent]

\* erase_node, the branch for a node with two children.
erase_two_children(h, node) ==
    LET parent == h[node].parent
        replacement == min_node(h, h[node].right)
        replacement_parent == h[replacement].parent
        far == h[node].right # replacement
        s1(x) == set_left(x, replacement, x[node].left)
        s2(x) == IF x[node].left # Null
                 THEN set_parent(x, x[node].left, replacement) ELSE x
        s3(x) == update_at_parent(x, parent, node, replacement)
        s4(x) == IF x[replacement].right # Null
                 THEN set_parent(x, x[replacement].right,
                                 x[replacement].parent)
                 ELSE x
        s5(x) == set_left(x, replacement_parent, x[replacement].right)
        s6(x) == set_right(x, replacement, x[node].right)
        s7(x) == set_parent(x, x[node].right, replacement)
        s8(x) == set_parent(x, replacement, parent)
    IN [h |-> IF far THEN s8(s7(s6(s5(s4(s3(s2(s1(h))))))))
                     ELSE s8(s3(s2(s1(h)))),
        replacement |-> replacement,
        for_rebalance |-> IF far THEN replacement_parent ELSE replacement]

\* The end of erase_node without its --size_.
erase_finish_keeps_size(m, node, e) ==
    rebalance_path(
        [heap |-> update_height(e.h, e.for_rebalance),
         root |-> IF node = m.root THEN e.replacement ELSE m.root,
         size |-> m.size],
        e.for_rebalance)

\* erase_node from its `if (node == root_)` to its rebalance_path call, on
\* the outcome e of the branch taken.
erase_finish(m, node, e) ==
    rebalance_path(
        [heap |-> update_height(e.h, e.for_rebalance),
         root |-> IF node = m.root THEN e.replacement ELSE m.root,
         size |-> m.size - 1],
        e.for_rebalance)

\* erase_node up to (not including) its final destroy_node(node).
erase_unlink(m, node) ==
    erase_finish(m, node,
        IF m.heap[node].left = Null \/ m.heap[node].right = Null
        THEN erase_one_child(m.heap, node)
        ELSE erase_two_children(m.heap, node))

\* Erasure by copying: a node with two children takes over its successor's
\* entry and the successor's node is the one unlinked and destroyed.
erase_node_by_copy(m, node) ==
    LET h == m.heap
        two == h[node].left # Null /\ h[node].right # Null
        victim == IF two THEN min_node(h, h[node].right) ELSE node
        h1 == IF two
              THEN [h EXCEPT ![node].key = h[victim].key,
                             ![node].val = h[victim].val]
              ELSE h
        m1 == erase_unlink([m EXCEPT !.heap = h1], victim)
    IN [m1 EXCEPT !.heap = destroy_node(m1.heap, victim)]

erase_node(m, node) ==
    LET m1 == erase_unlink(m, node)
    IN [m1 EXCEPT !.heap = destroy_node(m1.heap, node)]

RECURSIVE destroy_subtree(_, _)
destroy_subtree(h, root) ==
    IF root = Null THEN h
    ELSE LET l == h[root].left
             r == h[root].right
         IN destroy_node(destroy_subtree(destroy_subtree(h, l), r), root)

----------------------------------------------------------------------------
\* The program's state

VARIABLES
    heap,      \* address -> fields, for every constructed, not destroyed node
    root,      \* acid_map::root_
    size,      \* acid_map::size_
    it,        \* the node_ of an iterator the caller holds (Null: end())
    itEntry,   \* what the held iterator referred to when the caller got it
    itFreed,   \* the held iterator's node has been passed to destroy_node
    itGone,    \* how the held iterator's entry left the map: "no" (it has
               \* not), "erase" (the caller erased it), "clear" or
               \* "destroy" (the map was destroyed)
    ret        \* the call that has just returned and what it returned, until
               \* the caller goes on (NoRet then)

vars == <<heap, root, size, it, itEntry, itFreed, itGone, ret>>

mapVars == <<heap, root, size>>

itVars == <<it, itEntry, itFreed, itGone>>

\* The map object.
Map == [heap |-> heap, root |-> root, size |-> size]

NoEntry == [key |-> 0, val |-> 0]

EntryOf(h, node) == [key |-> h[node].key, val |-> h[node].val]

\* op: the call; key, val: its arguments (for an iterator call, the entry
\* the iterator stood for); node: the node pointer the call returns (the
\* node_ of the returned iterator, where ReturnType is an iterator);
\* flag: the returned bool; count: the returned size_type; had: whether an
\* entry with the key was in the map when the call began; stale: for an
\* iterator call, the iterator's itGone when the call began; branch: the
\* branch of erase_node the call took ("none": erase_node was not called);
\* thrown: the exception the call left with ("none": it returned).
Ret(op, key, val, node, flag, count, had, stale) ==
    [op |-> op, key |-> key, val |-> val, node |-> node, flag |-> flag,
     count |-> count, had |-> had, stale |-> stale, branch |-> "none",
     thrown |-> "none"]

\* What each call is declared to return.
ReturnType(op) ==
    CASE op \in {"find", "begin", "incr", "decr"} -> "iterator"
      [] op \in {"insert", "emplace", "try_emplace"} -> "pair<iterator, bool>"
      [] op \in {"erase", "erase_it"} -> "size_type"
      [] op = "deref" -> "value_type&"
      [] OTHER -> "void"

\* The branch erase_node takes on node: "one" (at most one child), "near"
\* (two children, the replacement is the right child), "far" (the
\* replacement is deeper and is a leaf) or "far_right" (it has a right
\* child).
EraseBranch(h, node) ==
    IF h[node].left = Null \/ h[node].right = Null THEN "one"
    ELSE LET replacement == min_node(h, h[node].right)
         IN IF h[node].right = replacement THEN "near"
            ELSE IF h[replacement].right = Null THEN "far"
            ELSE "far_right"

RECURSIVE Subtree(_, _)
\* The addresses reached from node by left_ and right_ links.
Subtree(h, node) ==
    IF node = Null \/ node \notin DOMAIN h THEN {}
    ELSE {node} \cup Subtree(h, h[node].left) \cup Subtree(h, h[node].right)

\* The nodes of the live tree and their keys.
LiveNodes == Subtree(heap, root)

LiveKeys == {heap[n].key : n \in LiveNodes}

\* root_ is absent or points at a constructed node: the map's own code can
\* follow it.  After clear() on a non-empty map it is a dangling pointer:
\* a lookup then reads destroyed storage (Find, Begin and At take any
\* outcome), and an insertion, an erasure or a second clear() would write
\* through it, for which the model defines no successor (those actions
\* require RootOk).
RootOk == root = Null \/ root \in DOMAIN heap

\* No call has returned something the caller still holds.
NoRet == Ret("none", 0, 0, Null, FALSE, 0, FALSE, "no")

Init ==
    /\ heap = << >>
    /\ root = Null
    /\ size = 0
    /\ it = Null
    /\ itEntry = NoEntry
    /\ itFreed = FALSE
    /\ itGone = "no"
    /\ ret = NoRet

----------------------------------------------------------------------------
\* The public operations as functions of the map object

\* end(): the iterator with node_ = nullptr.
end == Null

\* find(key)
find(m, key) == find_node(m.heap, m.root, key)[2]

\* begin()
begin(m) == IF m.root = Null THEN end ELSE min_node(m.heap, m.root)

\* insert that assigns the value when the key is already there.
insert_or_assign(m, k, v) ==
    LET f == find_node(m.heap, m.root, k)
    IN IF f[2] # Null
       THEN [m |-> [m EXCEPT !.heap[f[2]].val = v],
             node |-> f[2], flag |-> FALSE]
       ELSE LET c == construct_node(m.heap, k, v)
            IN [m |-> insert_node([m EXCEPT !.heap = c.h], f[1], c.node),
                node |-> c.node, flag |-> TRUE]

\* insert(value): [m: the map after, node: returned iterator, flag: bool]
insert(m, k, v) ==
    LET f == find_node(m.heap, m.root, k)
    IN IF f[2] # Null THEN [m |-> m, node |-> f[2], flag |-> FALSE]
       ELSE LET c == construct_node(m.heap, k, v)
            IN [m |-> insert_node([m EXCEPT !.heap = c.h], f[1], c.node),
                node |-> c.node, flag |-> TRUE]

\* emplace(args...): the node is built first, then its key is looked up.
emplace(m, k, v) ==
    LET c == construct_node(m.heap, k, v)
        f == find_node(c.h, m.root, c.h[c.node].key)
    IN IF f[2] # Null
       THEN [m |-> [m EXCEPT !.heap = destroy_node(c.h, c.node)],
             node |-> f[2], flag |-> FALSE]
       ELSE [m |-> insert_node([m EXCEPT !.heap = c.h], f[1], c.node),
             node |-> f[2], flag |-> TRUE]

\* try_emplace(key, args...)
try_emplace(m, k, v) ==
    LET f == find_node(m.heap, m.root, k)
    IN IF f[2] # Null THEN [m |-> m, node |-> f[2], flag |-> FALSE]
       ELSE LET c == construct_node(m.heap, k, v)
            IN [m |-> insert_node([m EXCEPT !.heap = c.h], f[1], c.node),
                node |-> c.node, flag |-> TRUE]

\* insert, emplace and try_emplace when the allocator has no storage left:
\* allocate (in construct_node) throws std::bad_alloc, which none of them
\* catches.  [m: the map after, node, flag: what is returned if the call
\* returns, thrown: whether it left with the exception].
insert_bad_alloc(m, k, v) ==
    LET f == find_node(m.heap, m.root, k)
    IN IF f[2] # Null
       THEN [m |-> m, node |-> f[2], flag |-> FALSE, thrown |-> FALSE]
       ELSE [m |-> m, node |-> Null, flag |-> FALSE, thrown |-> TRUE]

emplace_bad_alloc(m, k, v) ==
    [m |-> m, node |-> Null, flag |-> FALSE, thrown |-> TRUE]

\* try_emplace that counts the entry before it asks for storage.
try_emplace_counts_first(m, k, v) ==
    LET f == find_node(m.heap, m.root, k)
    IN IF f[2] # Null
       THEN [m |-> m, node |-> f[2], flag |-> FALSE, thrown |-> FALSE]
       ELSE [m |-> [m EXCEPT !.size = m.size + 1],
             node |-> Null, flag |-> FALSE, thrown |-> TRUE]

try_emplace_bad_alloc(m, k, v) ==
    LET f == find_node(m.heap, m.root, k)
    IN IF f[2] # Null
       THEN [m |-> m, node |-> f[2], flag |-> FALSE, thrown |-> FALSE]
       ELSE [m |-> m, node |-> Null, flag |-> FALSE, thrown |-> TRUE]

\* erase(key) that removes the entry with the smallest key instead.
erase_smallest(m, k) ==
    LET f == find_node(m.heap, m.root, k)
    IN IF f[2] = Null THEN [m |-> m, count |-> 0]
       ELSE [m |-> erase_node(m, min_node(m.heap, m.root)), count |-> 0]

\* erase(key): [m: the map after, count: the returned size_type]
erase(m, k) ==
    LET f == find_node(m.heap, m.root, k)
    IN IF f[2] = Null THEN [m |-> m, count |-> 0]
       ELSE [m |-> erase_node(m, f[2]), count |-> 0]

\* erase(pos): [m: the map after, node: the returned successor].  The code
\* returns the node pointer `next` itself, from a function declared to
\* return size_type.
erase_at(m, pos) ==
    LET next == next_node(m.heap, pos)
    IN [m |-> erase_node(m, pos), node |-> next]

\* at that yields a default value for a missing key.
at_unchecked(m, k) ==
    LET node == find_node(m.heap, m.root, k)[2]
    IN IF node = Null THEN [val |-> 0, thrown |-> FALSE]
       ELSE [val |-> m.heap[node].val, thrown |-> FALSE]

\* at(key): [val: the mapped value the returned reference is to, thrown:
\* whether it left with std::out_of_range].  The code names the entry
\* `node->value`; the node's only entry member is value_.
at(m, k) ==
    LET node == find_node(m.heap, m.root, k)[2]
    IN IF node = Null THEN [val |-> 0, thrown |-> TRUE]
       ELSE [val |-> m.heap[node].val, thrown |-> FALSE]

\* clear(): destroys the nodes; root_ and size_ are not assigned.
clear(m) == [m EXCEPT !.heap = destroy_subtree(m.heap, m.root)]

\* empty()
empty == size = 0

----------------------------------------------------------------------------
\* Actions

SetMap(m) == heap' = m.heap /\ root' = m.root /\ size' = m.size

\* What a call on the map does to the iterator the caller holds: the
\* iterator itself is not touched; its node may have been destroyed
\* (newHeap) and its entry may have left the map (goneKeys, by `how`).
HeldAfter(newHeap, goneKeys, how) ==
    /\ it' = it
    /\ itEntry' = itEntry
    /\ itFreed' = (itFreed \/ (it # Null /\ it \notin DOMAIN newHeap))
    /\ itGone' = IF itGone = "no" /\ it # Null /\ itEntry.key \in goneKeys
                 THEN how ELSE itGone

Insert(k, v) ==
    /\ ret = NoRet
    /\ RootOk
    /\ LET r == insert(Map, k, v)
       IN /\ SetMap(r.m)
          /\ HeldAfter(r.m.heap, {}, "no")
          /\ ret' = Ret("insert", k, v, r.node, r.flag, 0,
                        k \in LiveKeys, "no")

Emplace(k, v) ==
    /\ ret = NoRet
    /\ RootOk
    /\ LET r == emplace(Map, k, v)
       IN /\ SetMap(r.m)
          /\ HeldAfter(r.m.heap, {}, "no")
          /\ ret' = Ret("emplace", k, v, r.node, r.flag, 0,
                        k \in LiveKeys, "no")

TryEmplace(k, v) ==
    /\ ret = NoRet
    /\ RootOk
    /\ LET r == try_emplace(Map, k, v)
       IN /\ SetMap(r.m)
          /\ HeldAfter(r.m.heap, {}, "no")
          /\ ret' = Ret("try_emplace", k, v, r.node, r.flag, 0,
                        k \in LiveKeys, "no")

\* A call of insert, emplace or try_emplace (op, with outcome r) made when
\* the allocator has no storage left.
BadAlloc(op, k, v, r) ==
    /\ ret = NoRet
    /\ RootOk
    /\ SetMap(r.m)
    /\ HeldAfter(r.m.heap, {}, "no")
    /\ ret' = [Ret(op, k, v, r.node, r.flag, 0, k \in LiveKeys, "no")
                  EXCEPT !.thrown = IF r.thrown THEN "bad_alloc" ELSE "none"]

InsertBadAlloc(k, v) == BadAlloc("insert", k, v, insert_bad_alloc(Map, k, v))

EmplaceBadAlloc(k, v) ==
    BadAlloc("emplace", k, v, emplace_bad_alloc(Map, k, v))

TryEmplaceBadAlloc(k, v) ==
    BadAlloc("try_emplace", k, v, try_emplace_bad_alloc(Map, k, v))

EraseKey(k) ==
    /\ ret = NoRet
    /\ RootOk
    /\ LET r == erase(Map, k)
       IN /\ SetMap(r.m)
          /\ HeldAfter(r.m.heap, {k} \cap LiveKeys, "erase")
          /\ ret' = [Ret("erase", k, 0, Null, FALSE, r.count,
                         k \in LiveKeys, "no")
                        EXCEPT !.branch = IF find(Map, k) = Null THEN "none"
                                          ELSE EraseBranch(heap, find(Map, k))]

\* erase(pos) with pos an iterator at a live node.
EraseIterator(pos) ==
    /\ ret = NoRet
    /\ RootOk
    /\ pos \in LiveNodes
    /\ LET r == erase_at(Map, pos)
       IN /\ SetMap(r.m)
          /\ HeldAfter(r.m.heap, {heap[pos].key}, "erase")
          /\ ret' = [Ret("erase_it", heap[pos].key, heap[pos].val, r.node,
                         FALSE, 0, TRUE, "no")
                        EXCEPT !.branch = EraseBranch(heap, pos)]

Clear ==
    /\ ret = NoRet
    /\ RootOk
    /\ LET m == clear(Map)
       IN /\ SetMap(m)
          /\ HeldAfter(m.heap, LiveKeys, "clear")
          /\ ret' = Ret("clear", 0, 0, Null, FALSE, 0, FALSE, "no")

\* ~acid_map(): clear(), that is destroy_subtree(root_); the map object is
\* gone afterwards.  With a dangling root_ (clear() was called before on a
\* map that was not empty) destroy_subtree reads left_ and right_ of the
\* destroyed root node, goes on through whatever they hold, and passes the
\* root node to destroy_node a second time.
Destroy ==
    /\ ret = NoRet
    /\ IF RootOk
       THEN heap' = clear(Map).heap
       ELSE \E reached \in SUBSET DOMAIN heap :
               heap' = [n \in DOMAIN heap \ reached |-> heap[n]]
    /\ UNCHANGED <<root, size>>
    /\ HeldAfter(heap', LiveKeys, "destroy")
    /\ ret' = Ret("~acid_map", 0, 0, Null, FALSE, 0, FALSE, "no")

\* The caller's iterator is assigned `node`, a pointer the map returned.
Hold(node) ==
    /\ it' = node
    /\ itEntry' = IF node = Null THEN NoEntry ELSE EntryOf(heap, node)
    /\ itFreed' = FALSE
    /\ itGone' = "no"

\* The pointer values a read of destroyed storage can yield: nullptr, the
\* address of any constructed node, or an address of no node (they all
\* behave alike; the lowest stands for them).
Garbage ==
    {Null} \cup DOMAIN heap
           \cup (IF Nodes \subseteq DOMAIN heap THEN {}
                  ELSE {SetMin(Nodes \ DOMAIN heap)})

\* The caller's iterator is assigned the result of reading destroyed
\* storage.
HoldGarbage(node) ==
    /\ it' = node
    /\ itEntry' = NoEntry
    /\ itFreed' = (node # Null)
    /\ itGone' = "no"

\* it = find(k).  With a dangling root_ the descent reads destroyed storage.
Find(k) ==
    /\ ret = NoRet
    /\ IF RootOk
       THEN Hold(find(Map, k))
       ELSE \E n \in Garbage : HoldGarbage(n)
    /\ ret' = Ret("find", k, 0, it', FALSE, 0, k \in LiveKeys, "no")
    /\ UNCHANGED mapVars

\* it = begin()
Begin ==
    /\ ret = NoRet
    /\ IF RootOk
       THEN Hold(begin(Map))
       ELSE \E n \in Garbage : HoldGarbage(n)
    /\ ret' = Ret("begin", 0, 0, it', FALSE, 0, FALSE, "no")
    /\ UNCHANGED mapVars

\* ++it, for an iterator that is not end().  On a destroyed node next_node
\* reads destroyed storage.
Increment ==
    /\ ret = NoRet
    /\ it # Null
    /\ IF itFreed
       THEN \E n \in Garbage : HoldGarbage(n)
       ELSE Hold(next_node(heap, it))
    /\ ret' = Ret("incr", itEntry.key, itEntry.val, it', FALSE, 0,
                  itEntry.key \in LiveKeys, itGone)
    /\ UNCHANGED mapVars

\* --it, for an iterator that is not end() (prev_node reads node_->left_).
\* On a destroyed node prev_node reads destroyed storage.
Decrement ==
    /\ ret = NoRet
    /\ it # Null
    /\ IF itFreed
       THEN \E n \in Garbage : HoldGarbage(n)
       ELSE Hold(prev_node(heap, it))
    /\ ret' = Ret("decr", itEntry.key, itEntry.val, it', FALSE, 0,
                  itEntry.key \in LiveKeys, itGone)
    /\ UNCHANGED mapVars

\* *it.  On a destroyed node the read yields any entry.
Deref ==
    /\ ret = NoRet
    /\ it # Null
    /\ \E e \in (IF itFreed
                 THEN [key : Keys, val : Vals]
                 ELSE {EntryOf(heap, it)}) :
          ret' = Ret("deref", e.key, e.val, it, FALSE, 0,
                     itEntry.key \in LiveKeys, itGone)
    /\ UNCHANGED mapVars
    /\ UNCHANGED itVars

\* at(k).  With a dangling root_ the descent reads destroyed storage and
\* may end either way.
At(k) ==
    /\ ret = NoRet
    /\ \E r \in (IF RootOk
                 THEN {at(Map, k)}
                 ELSE {[val |-> 0, thrown |-> TRUE]}
                      \cup {[val |-> v, thrown |-> FALSE] : v \in Vals}) :
          ret' = [Ret("at", k, r.val, Null, FALSE, 0, k \in LiveKeys, "no")
                     EXCEPT !.thrown = IF r.thrown THEN "out_of_range"
                                       ELSE "none"]
    /\ UNCHANGED mapVars
    /\ UNCHANGED itVars

\* The caller has looked at what the call returned and goes on.
Return ==
    /\ ret # NoRet
    /\ ret.op # "~acid_map"
    /\ ret' = NoRet
    /\ UNCHANGED mapVars
    /\ UNCHANGED itVars

Next ==
    \/ \E k \in Keys, v \in Vals : Insert(k, v)
    \/ \E k \in Keys, v \in Vals : Emplace(k, v)
    \/ \E k \in Keys, v \in Vals : TryEmplace(k, v)
    \/ \E k \in Keys, v \in Vals : InsertBadAlloc(k, v)
    \/ \E k \in Keys, v \in Vals : EmplaceBadAlloc(k, v)
    \/ \E k \in Keys, v \in Vals : TryEmplaceBadAlloc(k, v)
    \/ \E k \in Keys : EraseKey(k)
    \/ \E pos \in Nodes : EraseIterator(pos)
    \/ Clear
    \/ Destroy
    \/ \E k \in Keys : Find(k)
    \/ \E k \in Keys : At(k)
    \/ Begin
    \/ Increment
    \/ Decrement
    \/ Deref
    \/ Return

\* Every operation, with values and a held iterator.
Spec == Init /\ [][Next]_vars

TreeNext ==
    \/ \E k \in TreeKeys : Insert(k, 1)
    \/ \E k \in TreeKeys : Emplace(k, 1)
    \/ \E k \in TreeKeys : TryEmplace(k, 1)
    \/ \E k \in TreeKeys : EraseKey(k)
    \/ \E pos \in Nodes : EraseIterator(pos)
    \/ Return

\* The insertions and erasures alone, on a larger set of keys.
SpecTree == Init /\ [][TreeNext]_vars

----------------------------------------------------------------------------
\* What the properties observe

\* The entries of the live tree.
LiveEntries == {EntryOf(heap, n) : n \in LiveNodes}

\* The live node with the smallest key greater than k, or end().
LiveSuccessor(k) ==
    LET above == {n \in LiveNodes : heap[n].key > k}
    IN IF above = {} THEN end
       ELSE CHOOSE n \in above : \A o \in above : heap[n].key <= heap[o].key

RECURSIVE deep_height(_, _)
\* tree_verifier::deep_height: the longest downward path, -1 for no node.
deep_height(h, node) ==
    IF node = Null THEN -1
    ELSE Max(deep_height(h, h[node].left), deep_height(h, h[node].right)) + 1

\* The held iterator is one the map handed out for an entry (not the end
\* iterator, not the result of reading destroyed storage).
HoldsEntry == it # Null /\ itEntry # NoEntry

----------------------------------------------------------------------------
\* C1: when the entry a held iterator refers to is erased (erase(key) or
\* erase(iterator)), the iterator's node is not destroyed and still holds
\* the entry; a later *it yields that entry.
C1_ErasedNodeSurvives ==
    /\ (HoldsEntry /\ itGone = "erase") =>
           /\ ~itFreed
           /\ it \in DOMAIN heap
           /\ EntryOf(heap, it) = itEntry
    /\ (ret.op = "deref" /\ ret.stale = "erase") =>
           [key |-> ret.key, val |-> ret.val] = itEntry

\* C2: ++it on an iterator whose entry was erased lands on the live node with
\* the smallest key greater than the erased key at the moment of the
\* increment, or on end(); never on an erased or destroyed node.
C2_IncrementAfterErase ==
    (ret.op = "incr" /\ ret.stale = "erase") =>
        /\ it = LiveSuccessor(ret.key)
        /\ ~itFreed

\* C3: an iterator at an entry keeps referring to the same node, live and
\* reachable from the root and holding the same key and value, through every
\* insertion and erasure of other keys.
C3_IteratorStable ==
    (HoldsEntry /\ itGone = "no") =>
        /\ ~itFreed
        /\ it \in LiveNodes
        /\ EntryOf(heap, it) = itEntry

\* C3's case: another key was just erased from a node with two children and
\* the held iterator's node took its place (it is the root, and the erased
\* key lies between its left child's key and its own).
C3_Witness ==
    /\ HoldsEntry /\ itGone = "no"
    /\ ret.op = "erase" /\ ret.had
    /\ it = root
    /\ heap[it].left # Null
    /\ heap[heap[it].left].key < ret.key
    /\ ret.key < heap[it].key

----------------------------------------------------------------------------
\* C4: the live tree is a search tree: below every live node, the keys to the
\* left are smaller and the keys to the right are greater; no two live nodes
\* have equivalent keys.
C4_SearchTree ==
    /\ \A n \in LiveNodes :
          /\ \A x \in Subtree(heap, heap[n].left) :
                is_less(heap[x].key, heap[n].key)
          /\ \A x \in Subtree(heap, heap[n].right) :
                is_less(heap[n].key, heap[x].key)
    /\ \A a, b \in LiveNodes :
          a # b => ~is_equal(heap[a].key, heap[b].key)

\* C4's case: a node with two children was just erased and its successor,
\* found deeper than its right child, took its place.
C4_Witness ==
    /\ ret.op = "erase" /\ ret.branch = "far"
    /\ LiveSuccessor(ret.key) # end
    /\ heap[LiveSuccessor(ret.key)].left # Null
    /\ heap[LiveSuccessor(ret.key)].right # Null

\* C5: at every live node the true heights of the two subtrees differ by at
\* most one.
C5_Balanced ==
    \A n \in LiveNodes :
        LET d == deep_height(heap, heap[n].left)
                 - deep_height(heap, heap[n].right)
        IN d <= 1 /\ d >= -1

\* C5's case: an insertion into a tree of at least five nodes ended with the
\* new node above other nodes, which only a double rotation does.
C5_Witness ==
    /\ ret.op \in {"insert", "emplace", "try_emplace"} /\ ret.flag
    /\ Cardinality(LiveNodes) >= 6
    /\ \E n \in LiveNodes :
          heap[n].key = ret.key /\ heap[n].left # Null /\ heap[n].right # Null

\* C6: size() is the number of nodes reachable from the root, and empty()
\* holds exactly when there is no root.
C6_SizeCounts ==
    /\ size = Cardinality(LiveNodes)
    /\ empty <=> root = Null

\* C6's case: erase(iterator) just removed the last entry.
C6_Witness ==
    ret.op = "erase_it" /\ ret.branch = "one" /\ root = Null /\ empty

\* C7: after clear(), size() is 0, empty() holds, there is no root and
\* begin() is end().
C7_ClearEmpties ==
    ret.op = "clear" =>
        /\ size = 0
        /\ empty
        /\ root = Null
        /\ begin(Map) = end

\* C8: erase(key) returns 1 and removes exactly the entry with that key
\* (size one less) when the key was present; it returns 0 and leaves the map
\* as it was when the key was absent.
C8_EraseKeyCounts ==
    [][ret'.op = "erase" =>
          IF ret'.had
          THEN /\ ret'.count = 1
               /\ size' = size - 1
               /\ LiveEntries' = {e \in LiveEntries : e.key # ret'.key}
          ELSE /\ ret'.count = 0
               /\ UNCHANGED mapVars]_vars

\* C9: emplace returns what insert of the same entry returns and leaves the
\* same map; for an absent key the flag is true and the iterator is at the
\* new live node holding the entry; for a present key the flag is false, the
\* iterator is at the node that was there and the map is unchanged.
C9_EmplaceAsInsert ==
    [][(ret'.op = "emplace" /\ ret'.thrown = "none") =>
          LET i == insert(Map, ret'.key, ret'.val)
          IN /\ ret'.flag = i.flag /\ ret'.node = i.node
             /\ Map' = i.m
             /\ IF ret'.had
                THEN /\ ~ret'.flag
                     /\ ret'.node \in LiveNodes
                     /\ heap[ret'.node].key = ret'.key
                     /\ UNCHANGED mapVars
                ELSE /\ ret'.flag
                     /\ ret'.node # end
                     /\ ret'.node \in LiveNodes'
                     /\ EntryOf(heap', ret'.node)
                            = [key |-> ret'.key, val |-> ret'.val]]_vars

\* C10: in the live tree every child's parent link points back at its
\* parent, every node but the root is a child of its parent, and the root
\* has no parent.
C10_ParentLinks ==
    /\ \A n \in LiveNodes :
          /\ heap[n].left # Null => heap[heap[n].left].parent = n
          /\ heap[n].right # Null => heap[heap[n].right].parent = n
          /\ n # root =>
                /\ heap[n].parent \in LiveNodes
                /\ \/ heap[heap[n].parent].left = n
                   \/ heap[heap[n].parent].right = n
    /\ root # Null => heap[root].parent = Null

\* C10's case: a node with two children was just erased whose successor sat
\* deeper than its right child and had a right child of its own, which was
\* handed to the successor's old parent.
C10_Witness ==
    /\ ret.op \in {"erase", "erase_it"} /\ ret.branch = "far_right"
    /\ root # Null

----------------------------------------------------------------------------
RECURSIVE Traverse(_, _, _)
\* for (it = node; it != end(); ++it): the nodes visited, in order.  The
\* walk stops after `more` nodes.
Traverse(h, node, more) ==
    IF node = end \/ more = 0 THEN << >>
    ELSE <<node>> \o Traverse(h, next_node(h, node), more - 1)

\* The walk from begin(), cut off only if it visits more nodes than exist.
InOrder(m) == Traverse(m.heap, begin(m), NumNodes + 1)

\* C11: the walk from begin() by ++ to end() visits every live node once, in
\* strictly increasing key order, with size() increments; ++ at the node
\* with the greatest key gives end(); begin() is end() exactly when the map
\* is empty.
C11_InOrderTraversal ==
    LET walk == InOrder(Map)
    IN /\ Len(walk) = size
       /\ {walk[i] : i \in 1..Len(walk)} = LiveNodes
       /\ \A i \in 1..(Len(walk) - 1) :
             is_less(heap[walk[i]].key, heap[walk[i + 1]].key)
       /\ root # Null => next_node(heap, max_node(heap, root)) = end
       /\ (begin(Map) = end) <=> empty

\* C11's case: after an erasure the walk passes a node that is a right child
\* without a right child of its own, so ++ climbs to an ancestor above the
\* parent.
C11_Witness ==
    /\ ret.op \in {"erase", "erase_it"}
    /\ \E i \in 1..(Len(InOrder(Map)) - 1) :
          LET n == InOrder(Map)[i]
          IN /\ heap[n].right = Null
             /\ is_right_child(heap, n)
             /\ InOrder(Map)[i + 1] # heap[n].parent

----------------------------------------------------------------------------
\* C12: at every live node the stored height_ is one more than the greater
\* of the children's stored height_, an absent child counting 0 (a leaf
\* has height_ 1).
C12_StoredHeights ==
    \A n \in LiveNodes :
        heap[n].height
            = Max(height(heap, heap[n].left), height(heap, heap[n].right)) + 1

\* C12's case: an erasure replaced a node by a successor taken from deeper
\* in its right subtree, and the tree below the root is one level lower on
\* the right than on the left afterwards.
C12_Witness ==
    /\ ret.op \in {"erase", "erase_it"} /\ ret.branch \in {"far", "far_right"}
    /\ root # Null
    /\ heap[root].height = 3
    /\ height(heap, heap[root].left) = 2
    /\ height(heap, heap[root].right) = 1

----------------------------------------------------------------------------
\* C13: insert of (k, v) with k present returns the node that holds k and
\* false and changes nothing (size, links, the stored value); with k absent
\* it returns a new node and true, size grows by one, find(k) is then that
\* node and holds v, and the other entries are as before.
C13_InsertNeverOverwrites ==
    [][(ret'.op = "insert" /\ ret'.thrown = "none") =>
          IF ret'.had
          THEN /\ ~ret'.flag
               /\ ret'.node = find(Map, ret'.key)
               /\ ret'.node \in LiveNodes
               /\ UNCHANGED mapVars
          ELSE /\ ret'.flag
               /\ ret'.node \notin DOMAIN heap
               /\ ret'.node \in LiveNodes'
               /\ size' = size + 1
               /\ find(Map', ret'.key) = ret'.node
               /\ EntryOf(heap', ret'.node)
                      = [key |-> ret'.key, val |-> ret'.val]
               /\ LiveEntries' \ {EntryOf(heap', ret'.node)} = LiveEntries
               /\ \A n \in LiveNodes :
                     /\ n \in LiveNodes'
                     /\ EntryOf(heap', n) = EntryOf(heap, n)]_vars

\* C13's case: insert was just called with a present key and another value
\* than the stored one, which is still stored.
C13_Witness ==
    /\ ret.op = "insert" /\ ret.thrown = "none" /\ ret.had /\ ~ret.flag
    /\ ret.node \in LiveNodes
    /\ heap[ret.node].key = ret.key
    /\ heap[ret.node].val # ret.val

----------------------------------------------------------------------------
\* What erase(pos) does to the map and which node it computes: the entry at
\* pos leaves, the others stay, and the node is the live node with the
\* smallest key above the erased key (or none), still live afterwards.
EraseIteratorEffect ==
    /\ size' = size - 1
    /\ LiveEntries' = LiveEntries \ {[key |-> ret'.key, val |-> ret'.val]}
    /\ Cardinality(LiveEntries') = Cardinality(LiveEntries) - 1
    /\ ret'.node = LiveSuccessor(ret'.key)
    /\ ret'.node # end =>
          /\ ret'.node \in LiveNodes'
          /\ EntryOf(heap', ret'.node) = EntryOf(heap, ret'.node)

\* C14: erase(pos) at a live entry removes exactly that entry and returns an
\* iterator at the in-order successor found before the node was detached
\* (end() for the greatest key); the returned iterator's node is live after
\* the call.
C14_EraseIteratorSuccessor ==
    [][ret'.op = "erase_it" =>
          /\ EraseIteratorEffect
          /\ ReturnType(ret'.op) = "iterator"]_vars

----------------------------------------------------------------------------
\* What a caller can see of a map: size(), find(key) for every key (the node
\* and the entry there), and the entries met on the walk from begin() to
\* end().
Observed(m) ==
    LET walk == InOrder(m)
    IN [size    |-> m.size,
        found   |-> [k \in Keys \cup TreeKeys |->
                        LET n == find(m, k)
                        IN [node  |-> n,
                            entry |-> IF n = end THEN NoEntry
                                      ELSE EntryOf(m.heap, n)]],
        inorder |-> [i \in 1..Len(walk) |-> EntryOf(m.heap, walk[i])]]

\* insert({k, v}); erase(k);
insert_then_erase(m, k, v) == erase(insert(m, k, v).m, k).m

\* C15: for a key k that is not in the map, insert((k, v)) followed by
\* erase(k) leaves size(), every find result and the in-order sequence of
\* entries as they were.
C15_InsertThenErase ==
    RootOk =>
        LET before == Observed(Map)
        IN \A k \in (Keys \cup TreeKeys) \ LiveKeys, v \in Vals :
              Observed(insert_then_erase(Map, k, v)) = before

\* C15 as stated, for every key k, present or not.
C15_InsertThenEraseAnyKey ==
    RootOk =>
        LET before == Observed(Map)
        IN \A k \in Keys \cup TreeKeys, v \in Vals :
              Observed(insert_then_erase(Map, k, v)) = before

\* C15's case: for some absent key the insertion rotates at the root of a
\* tree of at least four nodes, so that after the erasure the tree has
\* another root than before.
C15_Witness ==
    /\ RootOk
    /\ size >= 4
    /\ \E k \in (Keys \cup TreeKeys) \ LiveKeys :
          insert_then_erase(Map, k, 1).root # root

----------------------------------------------------------------------------
\* C16: an insert, emplace or try_emplace that needs a node when the
\* allocator has none leaves with std::bad_alloc, and the map is as before
\* the call: size_, root_, every node with its links, height and entry; no
\* node has been added.
C16_AllocationFailureAtomic ==
    [][/\ ret'.thrown = "bad_alloc" =>
             /\ ret'.op \in {"insert", "emplace", "try_emplace"}
             /\ UNCHANGED mapVars
             /\ LiveNodes' = LiveNodes
       /\ LET k == ret'.key
              v == ret'.val
          IN ( /\ ret'.op \in {"insert", "emplace", "try_emplace"}
               /\ \/ InsertBadAlloc(k, v) /\ k \notin LiveKeys
                  \/ EmplaceBadAlloc(k, v)
                  \/ TryEmplaceBadAlloc(k, v) /\ k \notin LiveKeys )
             => ret'.thrown = "bad_alloc"]_vars

\* C16's case: emplace of a key that is present has just failed for want of
\* storage (it asks for the node before it looks the key up).
C16_Witness ==
    /\ ret.op = "emplace" /\ ret.thrown = "bad_alloc" /\ ret.had
    /\ size >= 2

----------------------------------------------------------------------------
\* C17: clear() does not destroy the node of an entry that a held iterator
\* refers to; after clear() the iterator's node still holds the entry, and
\* *it yields it.
C17_ClearKeepsHeldNode ==
    /\ (HoldsEntry /\ itGone = "clear") =>
           /\ ~itFreed
           /\ it \in DOMAIN heap
           /\ EntryOf(heap, it) = itEntry
    /\ (ret.op = "deref" /\ ret.stale = "clear") =>
           [key |-> ret.key, val |-> ret.val] = itEntry

----------------------------------------------------------------------------
\* C18: when the map is destroyed with no iterator outstanding, every node
\* constructed and not yet destroyed is destroyed, once, and no destroyed
\* node is read or destroyed again: the destructor's destroy_subtree starts
\* at a root_ that is absent or a constructed node, the nodes it reaches
\* are all that are left, and none is left afterwards.
C18_DestroyedOnce ==
    [][(ret'.op = "~acid_map" /\ it = Null) =>
          /\ RootOk
          /\ DOMAIN heap = LiveNodes
          /\ heap' = << >>]_vars

----------------------------------------------------------------------------
----------------------------------------------------------------------------
\* A newly constructed acid_map.
EmptyMap == [heap |-> << >>, root |-> Null, size |-> 0]

RECURSIVE InsertAll(_, _)
\* for (k : keys) m.insert({k, 1});
InsertAll(m, keys) ==
    IF keys = << >> THEN m
    ELSE InsertAll(insert(m, Head(keys), 1).m, Tail(keys))

\* The tree of m is: root with key 2, no parent and height_ 2; its left
\* child with key 1 and its right child with key 3, both leaves with
\* height_ 1 whose parent_ is the root.
RotatedTree(m) ==
    /\ m.root # Null
    /\ m.size = 3
    /\ LET h == m.heap
           r == m.root
           a == h[r].left
           b == h[r].right
       IN /\ h[r].key = 2 /\ h[r].parent = Null /\ h[r].height = 2
          /\ a # Null /\ b # Null
          /\ h[a].key = 1 /\ h[a].parent = r /\ h[a].height = 1
          /\ h[a].left = Null /\ h[a].right = Null
          /\ h[b].key = 3 /\ h[b].parent = r /\ h[b].height = 1
          /\ h[b].left = Null /\ h[b].right = Null

\* C20: insert of 3 into the map made by inserting 1, 2 into an empty map,
\* and insert of 2 into the map made by inserting 3, 1, both give the tree
\* with root 2 (no parent, height 2) and the leaves 1 and 3 (parent the
\* root, height 1) as its left and right child.
C20_RotationOutcomes ==
    [][/\ ( /\ Map = InsertAll(EmptyMap, <<1, 2>>)
            /\ ret'.op = "insert" /\ ret'.thrown = "none"
            /\ ret'.key = 3 ) => RotatedTree(Map')
       /\ ( /\ Map = InsertAll(EmptyMap, <<3, 1>>)
            /\ ret'.op = "insert" /\ ret'.thrown = "none"
            /\ ret'.key = 2 ) => RotatedTree(Map')]_vars

\* C20's case: insert has just added 2 between 1 and 3 (a double rotation)
\* and the tree is the one described.
C20_Witness ==
    /\ ret.op = "insert" /\ ret.key = 2 /\ ret.flag
    /\ RotatedTree(Map)
    /\ Map = InsertAll(EmptyMap, <<3, 1, 2>>)
    /\ Map = InsertAll(EmptyMap, <<1, 2, 3>>)

----------------------------------------------------------------------------
\* The live node with the greatest key smaller than k, or end().
LivePredecessor(k) ==
    LET below == {n \in LiveNodes : heap[n].key < k}
    IN IF below = {} THEN end
       ELSE CHOOSE n \in below : \A o \in below : heap[n].key >= heap[o].key

\* C21: -- at a live node gives the live node with the greatest smaller key,
\* or end() at the smallest key; ++ then -- at a node that does not hold the
\* greatest key comes back to it, and -- then ++ at a node that does not
\* hold the smallest key comes back to it.
C21_PredecessorMirrors ==
    \A n \in LiveNodes :
        /\ prev_node(heap, n) = LivePredecessor(heap[n].key)
        /\ LiveSuccessor(heap[n].key) # end =>
              /\ next_node(heap, n) # end
              /\ prev_node(heap, next_node(heap, n)) = n
        /\ LivePredecessor(heap[n].key) # end =>
              /\ prev_node(heap, n) # end
              /\ next_node(heap, prev_node(heap, n)) = n

\* C21's case: after an erasure some node is a left child without a left
\* child of its own, so -- climbs to an ancestor above its parent, and ++
\* from there comes back down to it.
C21_Witness ==
    /\ ret.op \in {"erase", "erase_it"}
    /\ \E n \in LiveNodes :
          /\ heap[n].left = Null
          /\ heap[n].parent # Null
          /\ is_left_child(heap, n)
          /\ prev_node(heap, n) # end
          /\ prev_node(heap, n) # heap[n].parent
          /\ next_node(heap, prev_node(heap, n)) = n

====
